---- MODULE Spec2Model ----
(***************************************************************************)
(* Model of the btrfs garbage-collection tree (gc-tree.c): GC items are    *)
(* inserted at inode eviction (btrfs_add_inode_gc_item), work items are    *)
(* dispatched per GC root (btrfs_queue_gc_work) and drained by gc_work_fn. *)
(* Every process is modelled at the grain of its accesses to shared state  *)
(* (root->state bits, the GC trees, the transaction manager, fs flags);    *)
(* assignments to thread-private data are folded into the adjacent step.   *)
(***************************************************************************)
EXTENDS Integers, FiniteSets, Sequences, TLC

\* ---------------------------------------------------------------- bounds
\* fs_info->nr_global_roots: the number of GC roots of the filesystem.
NrGlobalRoots == 2
\* Inode numbers handed to btrfs_add_inode_gc_item are 1..MaxIno.
MaxIno == 2
\* Work descriptors kmalloc can hand out before it fails for lack of memory.
MaxWork == 2

\* ------------------------------------------------------------- constants
Dispatchers == {"d1", "d2"}
Works == 1..MaxWork
Roots == 0..(NrGlobalRoots - 1)
Subvols == {7}
BTRFS_GC_INODE_ITEM_KEY == "GC_INODE_ITEM"
KeyTypes == {BTRFS_GC_INODE_ITEM_KEY, "OTHER_ITEM"}
Keys == [objectid : Subvols, type : KeyTypes, offset : 1..MaxIno]
InodeKeys == {k \in Keys : k.type = BTRFS_GC_INODE_ITEM_KEY}
NoKey == [objectid |-> 0, type |-> "none", offset |-> 0]

\* A transaction handle (the one the task joined last): open or ended, and its
\* block_rsv. A handle that is never ended stays open.
NoTrans == [open |-> FALSE, block_rsv |-> "none"]
\* btrfs_gc_rsv_refill_and_join: the handle it returns on success.
JoinedTrans == [open |-> TRUE, block_rsv |-> "trans_block_rsv"]

VARIABLES
    closing,    \* btrfs_fs_closing(fs_info)
    incompat,   \* btrfs_fs_incompat(fs_info, EXTENT_TREE_V2)
    flag,       \* flag[r]: BTRFS_ROOT_GC_RUNNING in root r's state
    items,      \* items[r]: the keys stored in GC root r
    idata,      \* idata[k]: inode data of key k is still to be truncated
    dpc, di,    \* dispatcher: position in btrfs_queue_gc_work, loop index i
    wpc, wroot, wkey, wret, wtrans,   \* work items (struct gc_work + locals)
    apc, akey, aret, atrans           \* the evicting task in add_gc_item

fsvars == <<closing, incompat, flag, items, idata>>
dvars == <<dpc, di>>
wvars == <<wpc, wroot, wkey, wret, wtrans>>
avars == <<apc, akey, aret, atrans>>
vars == <<closing, incompat, flag, items, idata, dpc, di,
          wpc, wroot, wkey, wret, wtrans, apc, akey, aret, atrans>>

\* Mutant: the root index is derived from the subvolume id, not the inode
\* number.
inode_gc_root_objectid(k) == k.objectid % NrGlobalRoots

\* ---------------------------------------------------------------- helpers
\* inode_gc_root: the GC root of an inode is btrfs_ino(inode) % nr_global_roots.
inode_gc_root(k) == k.offset % NrGlobalRoots

\* Key order of a btree: (objectid, type, offset), compared field by field.
TypeRank(t) == IF t = BTRFS_GC_INODE_ITEM_KEY THEN 1 ELSE 2
KeyLess(a, b) ==
    \/ a.objectid < b.objectid
    \/ a.objectid = b.objectid /\ TypeRank(a.type) < TypeRank(b.type)
    \/ a.objectid = b.objectid /\ a.type = b.type /\ a.offset < b.offset

\* btrfs_first_item: the smallest key of a non-empty root.
btrfs_first_item(r) ==
    CHOOSE k \in items[r] : \A o \in items[r] : o = k \/ KeyLess(k, o)

Init ==
    /\ closing = FALSE
    /\ incompat \in BOOLEAN
    /\ flag = [r \in Roots |-> FALSE]
    /\ items = [r \in Roots |-> {}]
    /\ idata = [k \in Keys |-> FALSE]
    /\ dpc = [d \in Dispatchers |-> "idle"]
    /\ di = [d \in Dispatchers |-> 0]
    /\ wpc = [w \in Works |-> "free"]
    /\ wroot = [w \in Works |-> 0]
    /\ wkey = [w \in Works |-> NoKey]
    /\ wret = [w \in Works |-> "undef"]
    /\ wtrans = [w \in Works |-> NoTrans]
    /\ apc = "idle"
    /\ akey = NoKey
    /\ aret = "undef"
    /\ atrans = NoTrans

\* ------------------------------------------------------------ environment
\* The filesystem starts to close (close_ctree sets the closing state).
StartClosing ==
    /\ ~closing
    /\ closing' = TRUE
    /\ UNCHANGED <<incompat, flag, items, idata>>
    /\ UNCHANGED <<dvars, wvars, avars>>

\* ------------------------------------------------------------- dispatcher
\* The for loop of btrfs_queue_gc_work moves on to index i + 1, or returns.
NextRoot(d) ==
    IF di[d] + 1 < NrGlobalRoots
    THEN /\ di' = [di EXCEPT ![d] = di[d] + 1]
         /\ dpc' = [dpc EXCEPT ![d] = "tas"]
    ELSE /\ di' = [di EXCEPT ![d] = 0]
         /\ dpc' = [dpc EXCEPT ![d] = "idle"]

\* Mutant: the entry of btrfs_queue_gc_work does not look at btrfs_fs_closing.
queue_gc_work_noclosing(d) ==
    /\ dpc[d] = "idle"
    /\ IF ~incompat
       THEN UNCHANGED dvars
       ELSE /\ dpc' = [dpc EXCEPT ![d] = "tas"]
            /\ di' = [di EXCEPT ![d] = 0]
    /\ UNCHANGED <<fsvars, wvars, avars>>

\* btrfs_queue_gc_work, entry: return unless EXTENT_TREE_V2 is set and the
\* filesystem is not closing; otherwise start the loop at i = 0.
btrfs_queue_gc_work(d) ==
    /\ dpc[d] = "idle"
    /\ IF ~incompat \/ closing
       THEN UNCHANGED dvars
       ELSE /\ dpc' = [dpc EXCEPT ![d] = "tas"]
            /\ di' = [di EXCEPT ![d] = 0]
    /\ UNCHANGED <<fsvars, wvars, avars>>

\* Mutant: the bit is set without looking at its old value.
set_bit_only(d) ==
    /\ dpc[d] = "tas"
    /\ flag' = [flag EXCEPT ![di[d]] = TRUE]
    /\ dpc' = [dpc EXCEPT ![d] = "kmalloc"]
    /\ UNCHANGED <<closing, incompat, items, idata, di>>
    /\ UNCHANGED <<wvars, avars>>

\* test_and_set_bit(BTRFS_ROOT_GC_RUNNING, &root->state): atomic; when the
\* bit was already set the loop continues with the next root.
test_and_set_bit(d) ==
    /\ dpc[d] = "tas"
    /\ IF flag[di[d]]
       THEN /\ NextRoot(d)
            /\ UNCHANGED flag
       ELSE /\ flag' = [flag EXCEPT ![di[d]] = TRUE]
            /\ dpc' = [dpc EXCEPT ![d] = "kmalloc"]
            /\ UNCHANGED di
    /\ UNCHANGED <<closing, incompat, items, idata>>
    /\ UNCHANGED <<wvars, avars>>

\* Mutant: a failed kmalloc clears the bit and returns from the function.
kmalloc_fail_return(d) ==
    /\ dpc[d] = "kmalloc"
    /\ flag' = [flag EXCEPT ![di[d]] = FALSE]
    /\ di' = [di EXCEPT ![d] = 0]
    /\ dpc' = [dpc EXCEPT ![d] = "idle"]
    /\ UNCHANGED <<closing, incompat, items, idata>>
    /\ UNCHANGED <<wvars, avars>>

\* Mutant: a failed kmalloc continues without clearing the bit.
kmalloc_fail_noclear(d) ==
    /\ dpc[d] = "kmalloc"
    /\ NextRoot(d)
    /\ UNCHANGED <<closing, incompat, flag, items, idata>>
    /\ UNCHANGED <<wvars, avars>>

\* kmalloc(sizeof(struct gc_work)) returns NULL: clear the bit, continue.
kmalloc_fail(d) ==
    /\ dpc[d] = "kmalloc"
    /\ flag' = [flag EXCEPT ![di[d]] = FALSE]
    /\ NextRoot(d)
    /\ UNCHANGED <<closing, incompat, items, idata>>
    /\ UNCHANGED <<wvars, avars>>

\* The descriptor kmalloc returns: some unused one (the lowest, descriptors
\* being interchangeable).
FreeWork == {w \in Works : wpc[w] = "free"}
NewWork == CHOOSE w \in FreeWork : \A o \in FreeWork : w <= o

\* kmalloc succeeds: gc_work->root = root, btrfs_init_work, btrfs_queue_work.
btrfs_queue_work(d) ==
    /\ dpc[d] = "kmalloc"
    /\ FreeWork # {}
    /\ wpc' = [wpc EXCEPT ![NewWork] = "queued"]
    /\ wroot' = [wroot EXCEPT ![NewWork] = di[d]]
    /\ NextRoot(d)
    /\ UNCHANGED <<wkey, wret, wtrans>>
    /\ UNCHANGED <<fsvars, avars>>

\* ----------------------------------------------------------------- adder
\* btrfs_add_inode_gc_item(inode) -> add_gc_item: key {root objectid,
\* GC_INODE_ITEM, ino}; btrfs_alloc_path fails: return -ENOMEM.
add_gc_item_nomem(k) ==
    /\ apc = "idle"
    /\ akey' = NoKey
    /\ aret' = "ENOMEM"
    /\ UNCHANGED <<apc, atrans>>
    /\ UNCHANGED <<fsvars, dvars, wvars>>

\* btrfs_add_inode_gc_item(inode) -> add_gc_item with the path allocated.
btrfs_add_inode_gc_item(k) ==
    /\ apc = "idle"
    /\ apc' = "add_join"
    /\ akey' = k
    /\ aret' = "OK"
    /\ UNCHANGED atrans
    /\ UNCHANGED <<fsvars, dvars, wvars>>

\* add_gc_item: btrfs_gc_rsv_refill_and_join fails: ret = PTR_ERR, goto out.
add_join_fail ==
    /\ apc = "add_join"
    /\ apc' = "idle"
    /\ akey' = NoKey
    /\ aret' = "ENOSPC"
    /\ UNCHANGED atrans
    /\ UNCHANGED <<fsvars, dvars, wvars>>

\* add_gc_item: the join succeeds; trans->block_rsv = rsv.
add_join ==
    /\ apc = "add_join"
    /\ apc' = "add_insert"
    /\ atrans' = [JoinedTrans EXCEPT !.block_rsv = "rsv"]
    /\ UNCHANGED <<akey, aret>>
    /\ UNCHANGED <<fsvars, dvars, wvars>>

\* Mutant: the block_rsv is not restored after the insert.
add_insert_norestore ==
    /\ apc = "add_insert"
    /\ apc' = "add_end"
    /\ IF akey \in items[inode_gc_root(akey)]
       THEN /\ aret' = "EEXIST"
            /\ UNCHANGED <<items, idata>>
       ELSE /\ aret' = "OK"
            /\ items' = [items EXCEPT ![inode_gc_root(akey)] = @ \cup {akey}]
            /\ idata' = [idata EXCEPT ![akey] = TRUE]
    /\ UNCHANGED <<atrans, akey>>
    /\ UNCHANGED <<closing, incompat, flag>>
    /\ UNCHANGED <<dvars, wvars>>

\* Mutant: an insert that finds the key present reports success.
add_insert_exist_ok ==
    /\ apc = "add_insert"
    /\ apc' = "add_end"
    /\ aret' = "OK"
    /\ items' = [items EXCEPT ![inode_gc_root(akey)] = @ \cup {akey}]
    /\ idata' = [idata EXCEPT ![akey] = TRUE]
    /\ atrans' = [atrans EXCEPT !.block_rsv = "trans_block_rsv"]
    /\ UNCHANGED akey
    /\ UNCHANGED <<closing, incompat, flag>>
    /\ UNCHANGED <<dvars, wvars>>

\* add_gc_item: btrfs_insert_empty_item (-EEXIST when the key is there),
\* then trans->block_rsv = &fs_info->trans_block_rsv.
add_insert ==
    /\ apc = "add_insert"
    /\ apc' = "add_end"
    /\ IF akey \in items[inode_gc_root(akey)]
       THEN /\ aret' = "EEXIST"
            /\ UNCHANGED <<items, idata>>
       ELSE /\ aret' = "OK"
            /\ items' = [items EXCEPT ![inode_gc_root(akey)] = @ \cup {akey}]
            /\ idata' = [idata EXCEPT ![akey] = TRUE]
    /\ atrans' = [atrans EXCEPT !.block_rsv = "trans_block_rsv"]
    /\ UNCHANGED akey
    /\ UNCHANGED <<closing, incompat, flag>>
    /\ UNCHANGED <<dvars, wvars>>

\* add_gc_item: btrfs_end_transaction, btrfs_free_path, return ret.
add_end ==
    /\ apc = "add_end"
    /\ apc' = "idle"
    /\ atrans' = NoTrans
    /\ akey' = NoKey
    /\ UNCHANGED aret
    /\ UNCHANGED <<fsvars, dvars, wvars>>

\* ---------------------------------------------------------------- worker
\* Errors of btrfs_truncate_inode_items on which gc_inode tries again.
RetryErrs == {"ENOSPC", "EAGAIN"}

\* The work queue runs gc_work_fn: btrfs_alloc_path and btrfs_alloc_block_rsv
\* succeed, rsv->size and rsv->failfast are set.
gc_work_fn(w) ==
    /\ wpc[w] = "queued"
    /\ wpc' = [wpc EXCEPT ![w] = "loop"]
    /\ UNCHANGED <<wroot, wkey, wret, wtrans>>
    /\ UNCHANGED <<fsvars, dvars, avars>>

\* Mutant: a failed path allocation returns without clearing the bit.
alloc_path_fail_return(w) ==
    /\ wpc[w] = "queued"
    /\ wpc' = [wpc EXCEPT ![w] = "kfree"]
    /\ UNCHANGED <<wroot, wkey, wret, wtrans>>
    /\ UNCHANGED <<fsvars, dvars, avars>>

\* gc_work_fn: btrfs_alloc_path returns NULL: goto out.
alloc_path_fail(w) ==
    /\ wpc[w] = "queued"
    /\ wpc' = [wpc EXCEPT ![w] = "out"]
    /\ UNCHANGED <<wroot, wkey, wret, wtrans>>
    /\ UNCHANGED <<fsvars, dvars, avars>>

\* Mutant: a failed reservation allocation returns without clearing the bit.
alloc_rsv_fail_return(w) ==
    /\ wpc[w] = "queued"
    /\ wpc' = [wpc EXCEPT ![w] = "kfree"]
    /\ UNCHANGED <<wroot, wkey, wret, wtrans>>
    /\ UNCHANGED <<fsvars, dvars, avars>>

\* gc_work_fn: btrfs_alloc_block_rsv returns NULL: goto out_path,
\* btrfs_free_path.
alloc_rsv_fail(w) ==
    /\ wpc[w] = "queued"
    /\ wpc' = [wpc EXCEPT ![w] = "out"]
    /\ UNCHANGED <<wroot, wkey, wret, wtrans>>
    /\ UNCHANGED <<fsvars, dvars, avars>>

\* The while condition is false: the filesystem is not closing, or the root
\* has no first item. The loop ends: btrfs_free_block_rsv, btrfs_free_path.
drain_exit(w) ==
    /\ wpc[w] = "loop"
    /\ ~closing \/ items[wroot[w]] = {}
    /\ wpc' = [wpc EXCEPT ![w] = "out"]
    /\ UNCHANGED <<wroot, wkey, wret, wtrans>>
    /\ UNCHANGED <<fsvars, dvars, avars>>

\* The while condition is false because btrfs_first_item returns an error.
first_item_fail(w) ==
    /\ wpc[w] = "loop"
    /\ closing
    /\ wpc' = [wpc EXCEPT ![w] = "out"]
    /\ UNCHANGED <<wroot, wkey, wret, wtrans>>
    /\ UNCHANGED <<fsvars, dvars, avars>>

\* Mutant: delete_gc_item is called whatever gc_inode returned.
GcInodeReturnDeleteAlways(w, ret) ==
    /\ wret' = [wret EXCEPT ![w] = ret]
    /\ wpc' = [wpc EXCEPT ![w] = "del_join"]
    /\ UNCHANGED wkey

\* gc_inode returns ret to gc_work_fn: if (!ret) delete_gc_item(...), else
\* the while condition is evaluated again.
GcInodeReturn(w, ret) ==
    /\ wret' = [wret EXCEPT ![w] = ret]
    /\ IF ret = "OK"
       THEN /\ wpc' = [wpc EXCEPT ![w] = "del_join"]
            /\ UNCHANGED wkey
       ELSE /\ wpc' = [wpc EXCEPT ![w] = "loop"]
            /\ wkey' = [wkey EXCEPT ![w] = NoKey]

\* The while condition is true: the first key is read and the path released.
\* A key of another type than GC_INODE_ITEM is ASSERT(0), which stops the
\* worker in a build with assertions, and ret = -EINVAL otherwise.
SwitchDefault(w) ==
    \E assertions \in BOOLEAN :
        /\ wkey' = [wkey EXCEPT ![w] = NoKey]
        /\ wret' = [wret EXCEPT ![w] = "EINVAL"]
        /\ wpc' = [wpc EXCEPT ![w] = IF assertions THEN "BUG" ELSE "loop"]

\* Mutant: the while condition does not test btrfs_fs_closing.
gc_inode_noclosing(w) ==
    /\ wpc[w] = "loop"
    /\ items[wroot[w]] # {}
    /\ LET key == btrfs_first_item(wroot[w]) IN
       IF key.type = BTRFS_GC_INODE_ITEM_KEY
       THEN /\ wkey' = [wkey EXCEPT ![w] = key]
            /\ wret' = [wret EXCEPT ![w] = "OK"]
            /\ wpc' = [wpc EXCEPT ![w] = "gc_join"]
       ELSE SwitchDefault(w)
    /\ UNCHANGED <<wroot, wtrans>>
    /\ UNCHANGED <<fsvars, dvars, avars>>

\* The loop body for a GC_INODE_ITEM key: gc_inode, whose btrfs_get_fs_root
\* finds the subvolume; ret = 0 and the do-while is entered.
gc_inode(w) ==
    /\ wpc[w] = "loop"
    /\ closing /\ items[wroot[w]] # {}
    /\ LET key == btrfs_first_item(wroot[w]) IN
       IF key.type = BTRFS_GC_INODE_ITEM_KEY
       THEN /\ wkey' = [wkey EXCEPT ![w] = key]
            /\ wret' = [wret EXCEPT ![w] = "OK"]
            /\ wpc' = [wpc EXCEPT ![w] = "gc_join"]
       ELSE SwitchDefault(w)
    /\ UNCHANGED <<wroot, wtrans>>
    /\ UNCHANGED <<fsvars, dvars, avars>>

\* The loop body for a GC_INODE_ITEM key: gc_inode, whose btrfs_get_fs_root
\* returns -ENOENT (the subvolume is being deleted): return 0.
get_fs_root_enoent(w) ==
    /\ wpc[w] = "loop"
    /\ closing /\ items[wroot[w]] # {}
    /\ LET key == btrfs_first_item(wroot[w]) IN
       /\ key.type = BTRFS_GC_INODE_ITEM_KEY
       /\ wkey' = [wkey EXCEPT ![w] = key]
       /\ wret' = [wret EXCEPT ![w] = "OK"]
       /\ wpc' = [wpc EXCEPT ![w] = "del_join"]
    /\ UNCHANGED <<wroot, wtrans>>
    /\ UNCHANGED <<fsvars, dvars, avars>>

\* Mutant: an error of btrfs_get_fs_root other than -ENOENT is returned but
\* the item is deleted all the same.
get_fs_root_fail_delete(w) ==
    /\ wpc[w] = "loop"
    /\ closing /\ items[wroot[w]] # {}
    /\ btrfs_first_item(wroot[w]).type = BTRFS_GC_INODE_ITEM_KEY
    /\ wkey' = [wkey EXCEPT ![w] = btrfs_first_item(wroot[w])]
    /\ wret' = [wret EXCEPT ![w] = "EIO"]
    /\ wpc' = [wpc EXCEPT ![w] = "del_join"]
    /\ UNCHANGED <<wroot, wtrans>>
    /\ UNCHANGED <<fsvars, dvars, avars>>

\* The loop body for a GC_INODE_ITEM key: gc_inode, whose btrfs_get_fs_root
\* returns another error: btrfs_err, return ret.
get_fs_root_fail(w) ==
    /\ wpc[w] = "loop"
    /\ closing /\ items[wroot[w]] # {}
    /\ btrfs_first_item(wroot[w]).type = BTRFS_GC_INODE_ITEM_KEY
    /\ GcInodeReturn(w, "EIO")
    /\ UNCHANGED <<wroot, wtrans>>
    /\ UNCHANGED <<fsvars, dvars, avars>>

\* gc_inode: btrfs_gc_rsv_refill_and_join fails: ret = PTR_ERR(trans), break,
\* btrfs_put_root, return ret.
gc_join_fail(w) ==
    /\ wpc[w] = "gc_join"
    /\ GcInodeReturn(w, "ENOSPC")
    /\ UNCHANGED <<wroot, wtrans>>
    /\ UNCHANGED <<fsvars, dvars, avars>>

\* gc_inode: the join succeeds; trans->block_rsv = rsv.
gc_join(w) ==
    /\ wpc[w] = "gc_join"
    /\ wpc' = [wpc EXCEPT ![w] = "gc_trunc"]
    /\ wtrans' = [wtrans EXCEPT ![w] = [JoinedTrans EXCEPT !.block_rsv = "rsv"]]
    /\ UNCHANGED <<wroot, wkey, wret>>
    /\ UNCHANGED <<fsvars, dvars, avars>>

\* gc_inode: btrfs_truncate_inode_items to new_size 0 succeeds; then
\* trans->block_rsv = &fs_info->trans_block_rsv.
btrfs_truncate_inode_items(w) ==
    /\ wpc[w] = "gc_trunc"
    /\ wpc' = [wpc EXCEPT ![w] = "gc_end"]
    /\ wret' = [wret EXCEPT ![w] = "OK"]
    /\ idata' = [idata EXCEPT ![wkey[w]] = FALSE]
    /\ wtrans' = [wtrans EXCEPT ![w].block_rsv = "trans_block_rsv"]
    /\ UNCHANGED <<wroot, wkey>>
    /\ UNCHANGED <<closing, incompat, flag, items>>
    /\ UNCHANGED <<dvars, avars>>

\* gc_inode: btrfs_truncate_inode_items fails with err; then
\* trans->block_rsv = &fs_info->trans_block_rsv.
truncate_fail(w, err) ==
    /\ wpc[w] = "gc_trunc"
    /\ wpc' = [wpc EXCEPT ![w] = "gc_end"]
    /\ wret' = [wret EXCEPT ![w] = err]
    /\ wtrans' = [wtrans EXCEPT ![w].block_rsv = "trans_block_rsv"]
    /\ UNCHANGED <<wroot, wkey>>
    /\ UNCHANGED <<fsvars, dvars, avars>>

\* Mutant: the do-while repeats on every error.
gc_end_retry_any(w) ==
    /\ wpc[w] = "gc_end"
    /\ wtrans' = [wtrans EXCEPT ![w] = NoTrans]
    /\ IF wret[w] # "OK"
       THEN /\ wpc' = [wpc EXCEPT ![w] = "gc_join"]
            /\ UNCHANGED <<wkey, wret>>
       ELSE GcInodeReturn(w, wret[w])
    /\ UNCHANGED wroot
    /\ UNCHANGED <<fsvars, dvars, avars>>

\* gc_inode: btrfs_end_transaction, btrfs_btree_balance_dirty, then
\* while (ret == -ENOSPC || ret == -EAGAIN); btrfs_put_root, return ret.
gc_end(w) ==
    /\ wpc[w] = "gc_end"
    /\ wtrans' = [wtrans EXCEPT ![w] = NoTrans]
    /\ IF wret[w] \in RetryErrs
       THEN /\ wpc' = [wpc EXCEPT ![w] = "gc_join"]
            /\ UNCHANGED <<wkey, wret>>
       ELSE GcInodeReturn(w, wret[w])
    /\ UNCHANGED wroot
    /\ UNCHANGED <<fsvars, dvars, avars>>

\* delete_gc_item returns to the loop of gc_work_fn.
DeleteReturn(w) ==
    /\ wpc' = [wpc EXCEPT ![w] = "loop"]
    /\ wkey' = [wkey EXCEPT ![w] = NoKey]

\* delete_gc_item: btrfs_gc_rsv_refill_and_join fails: return.
del_join_fail(w) ==
    /\ wpc[w] = "del_join"
    /\ DeleteReturn(w)
    /\ UNCHANGED <<wroot, wret, wtrans>>
    /\ UNCHANGED <<fsvars, dvars, avars>>

\* delete_gc_item: the join succeeds (trans->block_rsv is left as joined).
delete_gc_item(w) ==
    /\ wpc[w] = "del_join"
    /\ wpc' = [wpc EXCEPT ![w] = "del_search"]
    /\ wtrans' = [wtrans EXCEPT ![w] = JoinedTrans]
    /\ UNCHANGED <<wroot, wkey, wret>>
    /\ UNCHANGED <<fsvars, dvars, avars>>

\* delete_gc_item: btrfs_search_slot fails (ret < 0): return; the handle is
\* not ended.
search_slot_fail(w) ==
    /\ wpc[w] = "del_search"
    /\ DeleteReturn(w)
    /\ UNCHANGED <<wroot, wret, wtrans>>
    /\ UNCHANGED <<fsvars, dvars, avars>>

\* Mutant: the item at the slot the search ended on is deleted even when the
\* key was not found.
del_item_any(w) ==
    /\ wpc[w] = "del_search"
    /\ items' = [items EXCEPT ![wroot[w]] =
                    IF wkey[w] \in @ THEN @ \ {wkey[w]}
                    ELSE IF @ = {} THEN @ ELSE @ \ {btrfs_first_item(wroot[w])}]
    /\ wpc' = [wpc EXCEPT ![w] = "del_end"]
    /\ UNCHANGED <<wroot, wkey, wret, wtrans>>
    /\ UNCHANGED <<closing, incompat, flag, idata>>
    /\ UNCHANGED <<dvars, avars>>

\* delete_gc_item: btrfs_search_slot for the exact key; not found (ret > 0)
\* is -ENOENT: return, the handle is not ended. Found: btrfs_del_item,
\* btrfs_release_path.
btrfs_del_item(w) ==
    /\ wpc[w] = "del_search"
    /\ IF wkey[w] \in items[wroot[w]]
       THEN /\ items' = [items EXCEPT ![wroot[w]] = @ \ {wkey[w]}]
            /\ wpc' = [wpc EXCEPT ![w] = "del_end"]
            /\ UNCHANGED wkey
       ELSE /\ DeleteReturn(w)
            /\ UNCHANGED items
    /\ UNCHANGED <<wroot, wret, wtrans>>
    /\ UNCHANGED <<closing, incompat, flag, idata>>
    /\ UNCHANGED <<dvars, avars>>

\* delete_gc_item: btrfs_end_transaction, return.
del_end(w) ==
    /\ wpc[w] = "del_end"
    /\ wtrans' = [wtrans EXCEPT ![w] = NoTrans]
    /\ DeleteReturn(w)
    /\ UNCHANGED <<wroot, wret>>
    /\ UNCHANGED <<fsvars, dvars, avars>>

\* gc_work_fn, out: clear_bit(BTRFS_ROOT_GC_RUNNING, &root->state).
clear_bit(w) ==
    /\ wpc[w] = "out"
    /\ flag' = [flag EXCEPT ![wroot[w]] = FALSE]
    /\ wpc' = [wpc EXCEPT ![w] = "kfree"]
    /\ UNCHANGED <<wroot, wkey, wret, wtrans>>
    /\ UNCHANGED <<closing, incompat, items, idata>>
    /\ UNCHANGED <<dvars, avars>>

\* gc_work_fn: kfree(gc_work) and return to the work queue.
kfree(w) ==
    /\ wpc[w] = "kfree"
    /\ wpc' = [wpc EXCEPT ![w] = "free"]
    /\ wroot' = [wroot EXCEPT ![w] = 0]
    /\ wkey' = [wkey EXCEPT ![w] = NoKey]
    /\ wret' = [wret EXCEPT ![w] = "undef"]
    /\ wtrans' = [wtrans EXCEPT ![w] = NoTrans]
    /\ UNCHANGED <<fsvars, dvars, avars>>

\* ------------------------------------------------------- specifications
Dispatch(d) ==
    \/ btrfs_queue_gc_work(d)
    \/ test_and_set_bit(d)
    \/ kmalloc_fail(d)
    \/ btrfs_queue_work(d)

Add ==
    \/ \E k \in InodeKeys : add_gc_item_nomem(k)
    \/ \E k \in InodeKeys : btrfs_add_inode_gc_item(k)
    \/ add_join_fail
    \/ add_join
    \/ add_insert
    \/ add_end

Work(w) ==
    \/ gc_work_fn(w)
    \/ alloc_path_fail(w)
    \/ alloc_rsv_fail(w)
    \/ drain_exit(w)
    \/ first_item_fail(w)
    \/ gc_inode(w)
    \/ get_fs_root_enoent(w)
    \/ get_fs_root_fail(w)
    \/ gc_join_fail(w)
    \/ gc_join(w)
    \/ btrfs_truncate_inode_items(w)
    \/ \E err \in RetryErrs \cup {"EIO"} : truncate_fail(w, err)
    \/ gc_end(w)
    \/ del_join_fail(w)
    \/ delete_gc_item(w)
    \/ search_slot_fail(w)
    \/ btrfs_del_item(w)
    \/ del_end(w)
    \/ clear_bit(w)
    \/ kfree(w)

Next ==
    \/ StartClosing
    \/ \E d \in Dispatchers : Dispatch(d)
    \/ Add
    \/ \E w \in Works : Work(w)

Spec == Init /\ [][Next]_vars

\* The program without injected faults: every allocation, join, lookup,
\* search and truncation succeeds. The work queue runs every queued work item
\* and a running gc_work_fn keeps being scheduled (weak fairness per work item).
WorkNoFault(w) ==
    \/ gc_work_fn(w)
    \/ drain_exit(w)
    \/ gc_inode(w)
    \/ gc_join(w)
    \/ btrfs_truncate_inode_items(w)
    \/ gc_end(w)
    \/ delete_gc_item(w)
    \/ btrfs_del_item(w)
    \/ del_end(w)
    \/ clear_bit(w)
    \/ kfree(w)

LiveNext ==
    \/ StartClosing
    \/ btrfs_queue_gc_work("d1")
    \/ test_and_set_bit("d1")
    \/ btrfs_queue_work("d1")
    \/ \E k \in InodeKeys : btrfs_add_inode_gc_item(k)
    \/ add_join
    \/ add_insert
    \/ add_end
    \/ \E w \in Works : WorkNoFault(w)

LiveSpec ==
    /\ Init
    /\ [][LiveNext]_vars
    /\ \A w \in Works : WF_vars(WorkNoFault(w))

\* delete_gc_item on its own: called by a worker for any key on any root,
\* whatever the root holds.
DeleteInit ==
    /\ closing = TRUE
    /\ incompat = TRUE
    /\ flag \in [Roots -> BOOLEAN]
    /\ items \in [Roots -> SUBSET InodeKeys]
    /\ idata = [k \in Keys |-> FALSE]
    /\ dpc = [d \in Dispatchers |-> "idle"]
    /\ di = [d \in Dispatchers |-> 0]
    /\ wpc = [w \in Works |-> IF w = 1 THEN "del_join" ELSE "free"]
    /\ wroot \in [Works -> Roots]
    /\ \A w \in Works : w # 1 => wroot[w] = 0
    /\ wkey \in [Works -> InodeKeys \cup {NoKey}]
    /\ \A w \in Works : (w = 1) = (wkey[w] # NoKey)
    /\ wret = [w \in Works |-> IF w = 1 THEN "OK" ELSE "undef"]
    /\ wtrans = [w \in Works |-> NoTrans]
    /\ flag[wroot[1]]
    /\ apc = "idle"
    /\ akey = NoKey
    /\ aret = "undef"
    /\ atrans = NoTrans

DeleteNext ==
    \/ del_join_fail(1)
    \/ delete_gc_item(1)
    \/ search_slot_fail(1)
    \/ btrfs_del_item(1)
    \/ del_end(1)

DeleteSpec == DeleteInit /\ [][DeleteNext]_vars

\* gc_work_fn on a closing filesystem whose GC roots hold any keys of the
\* right index, keys of another type than GC_INODE_ITEM included: one work
\* item is queued, nothing fails, and the work queue keeps running it.
ForeignInit ==
    /\ closing = TRUE
    /\ incompat = TRUE
    /\ items \in [Roots -> SUBSET Keys]
    /\ \A r \in Roots : \A k \in items[r] : inode_gc_root(k) = r
    /\ idata = [k \in Keys |-> k \in InodeKeys /\ k \in items[inode_gc_root(k)]]
    /\ dpc = [d \in Dispatchers |-> "idle"]
    /\ di = [d \in Dispatchers |-> 0]
    /\ wpc = [w \in Works |-> IF w = 1 THEN "queued" ELSE "free"]
    /\ wroot \in [Works -> Roots]
    /\ \A w \in Works : w # 1 => wroot[w] = 0
    /\ flag = [r \in Roots |-> r = wroot[1]]
    /\ wkey = [w \in Works |-> NoKey]
    /\ wret = [w \in Works |-> "undef"]
    /\ wtrans = [w \in Works |-> NoTrans]
    /\ apc = "idle"
    /\ akey = NoKey
    /\ aret = "undef"
    /\ atrans = NoTrans

ForeignNext == WorkNoFault(1)

ForeignSpec ==
    /\ ForeignInit
    /\ [][ForeignNext]_vars
    /\ WF_vars(WorkNoFault(1))

\* ------------------------------------------------------------------ claims
\* Work items of root r that exist (queued or running, kfree included).
WorksOf(r) == {w \in Works : wpc[w] # "free" /\ wroot[w] = r}
\* Work items of root r that have not yet executed their clear_bit.
HoldersOf(r) == {w \in Works : wpc[w] \notin {"free", "kfree"} /\ wroot[w] = r}
\* Dispatchers between a successful test_and_set_bit on r and the enqueue or
\* clear_bit that follows it.
SettersOf(r) == {d \in Dispatchers : dpc[d] = "kmalloc" /\ di[d] = r}

\* C1 (as stated): at any time at most one work item of a root is queued or
\* running.
C1_AtMostOneWorkItem ==
    \A r \in Roots : Cardinality(WorksOf(r)) <= 1

\* C1 (amended): for every root, the dispatchers that saw test_and_set_bit go
\* from clear to set and have not yet enqueued or cleared, together with the
\* work items that are queued or running ahead of their clear_bit, number at
\* most one; hence only the dispatcher that observed the transition enqueues.
\* (A work item that has cleared the bit may still be in kfree.)
C1_AtMostOneHolder ==
    \A r \in Roots :
        /\ Cardinality(SettersOf(r)) + Cardinality(HoldersOf(r)) <= 1
        /\ (SettersOf(r) # {} \/ HoldersOf(r) # {}) => flag[r]

\* C1 witness: two dispatchers are at test_and_set_bit on a root whose worker
\* is in its drain loop.
C1_Witness ==
    \E r \in Roots : \E w \in Works :
        /\ wpc[w] = "loop" /\ wroot[w] = r
        /\ \A d \in Dispatchers : dpc[d] = "tas" /\ di[d] = r

\* C2: a key leaves a GC root only in the btrfs_del_item step of a worker of
\* that root whose gc_inode has just returned 0 for that very key.
C2_DeleteOnlyAfterReclaim ==
    [][\A r \in Roots : \A k \in Keys :
          (k \in items[r] /\ k \notin items'[r]) =>
              \E w \in Works :
                  /\ wpc[w] = "del_search" /\ wpc'[w] = "del_end"
                  /\ wroot[w] = r /\ wkey[w] = k /\ wret[w] = "OK"]_vars

\* C2 witness: a worker has deleted the key it reclaimed.
C2_Witness ==
    \E w \in Works :
        /\ wpc[w] = "del_end" /\ wret[w] = "OK"
        /\ wkey[w] \in InodeKeys /\ wkey[w] \notin items[wroot[w]]

\* C3 (as stated): once a GC item is in its root and btrfs_queue_gc_work has
\* queued the worker of that root on a filesystem with EXTENT_TREE_V2, the
\* worker eventually truncates the inode and deletes the item.
C3_QueuedWorkReclaims ==
    \A k \in InodeKeys :
        (/\ incompat
         /\ k \in items[inode_gc_root(k)]
         /\ \E w \in Works : wpc[w] = "queued" /\ wroot[w] = inode_gc_root(k))
        ~> (k \notin items[inode_gc_root(k)] /\ ~idata[k])

\* C4 (as stated): gc_inode is not run for a key whose inode data a
\* truncation has already reclaimed successfully.
C4_ReclaimedOnce ==
    \A w \in Works :
        wpc[w] \in {"gc_join", "gc_trunc"} => idata[wkey[w]]

\* C5 (as stated): a worker whose last item ended with an error (gc_inode
\* returned non-zero) reads no further item in this pass: its next step is
\* the teardown.
C5_StopAfterHardError ==
    [][\A w \in Works :
          (wpc[w] = "loop" /\ wret[w] \notin {"undef", "OK"} /\ wpc'[w] # "loop")
              => wpc'[w] = "out"]_vars

\* C6: the do-while of gc_inode repeats exactly when the truncation returned
\* -ENOSPC or -EAGAIN; every attempt joins a transaction after the previous
\* one was ended and truncates with block_rsv bound to the worker's rsv; a
\* failed join ends gc_inode with an error; a truncation that succeeds makes
\* gc_inode return 0 and the worker call delete_gc_item for the same key,
\* whose btrfs_del_item removes the key from the root.
C6_RetryLoop ==
    [][\A w \in Works :
          /\ (wpc[w] = "gc_end" /\ wpc'[w] # "gc_end") =>
                /\ ~wtrans'[w].open
                /\ (wpc'[w] = "gc_join") = (wret[w] \in RetryErrs)
                /\ wret[w] = "OK" =>
                      (wpc'[w] = "del_join" /\ wret'[w] = "OK" /\ wkey'[w] = wkey[w])
                /\ wret[w] \notin RetryErrs \cup {"OK"} =>
                      (wpc'[w] = "loop" /\ wret'[w] = wret[w])
          /\ (wpc[w] = "gc_join" /\ wpc'[w] # "gc_join") =>
                \/ /\ wpc'[w] = "gc_trunc"
                   /\ wtrans'[w].open /\ wtrans'[w].block_rsv = "rsv"
                \/ wpc'[w] = "loop" /\ wret'[w] \notin {"OK", "undef"}
          /\ (wpc[w] = "gc_trunc" /\ wpc'[w] # "gc_trunc") =>
                /\ wtrans[w].open /\ wtrans[w].block_rsv = "rsv"
                /\ wpc'[w] = "gc_end"
          /\ (wpc[w] = "del_search" /\ wpc'[w] = "del_end") =>
                wkey[w] \notin items'[wroot[w]]]_vars

\* C6 witness: a truncation has returned -EAGAIN inside its transaction and
\* gc_inode is about to end the transaction and try again.
C6_Witness ==
    \E w \in Works :
        wpc[w] = "gc_end" /\ wret[w] = "EAGAIN" /\ wtrans[w].open

\* C7: gc_work_fn returns (its descriptor is freed) only from kfree, and
\* kfree is reached only by the clear_bit step, which takes the root's
\* running bit from set to clear.
C7_ExitClearsFlag ==
    [][\A w \in Works :
          /\ (wpc[w] # "free" /\ wpc'[w] = "free") => wpc[w] = "kfree"
          /\ (wpc[w] # "kfree" /\ wpc'[w] = "kfree") =>
                (wpc[w] = "out" /\ flag[wroot[w]] /\ ~flag'[wroot[w]])]_vars

\* C7 witness: a worker has cleared the bit after a failed item and is about
\* to return.
C7_Witness ==
    \E w \in Works :
        wpc[w] = "kfree" /\ wret[w] = "EIO" /\ ~flag[wroot[w]]

\* C8: when the key is absent from the root, the search-and-delete step of
\* delete_gc_item changes no root's items, leaves the worker's ret alone and
\* returns to the worker's loop.
C8_DeleteAbsentIsNoop ==
    [][\A w \in Works :
          (/\ wpc[w] = "del_search" /\ wpc'[w] # "del_search"
           /\ wkey[w] \notin items[wroot[w]]) =>
              (items' = items /\ wret'[w] = wret[w] /\ wpc'[w] = "loop")]_vars

\* C8 witness: delete_gc_item has joined and is about to search a non-empty
\* root for a key the root does not hold.
C8_Witness ==
    \E w \in Works :
        /\ wpc[w] = "del_search"
        /\ wkey[w] \notin items[wroot[w]]
        /\ items[wroot[w]] # {}

C10_MutateWithGcRsv ==
    /\ apc = "add_insert" => atrans.block_rsv = "rsv"
    /\ \A w \in Works :
          wpc[w] \in {"gc_trunc", "del_search"} => wtrans[w].block_rsv = "rsv"

\* C11: every GC item is stored in the GC root whose index is its inode
\* number (key.offset) modulo nr_global_roots, and the key a worker holds was
\* read from the root of the index it was queued for.
C11_ItemsRouted ==
    /\ \A r \in Roots : \A k \in items[r] : k.offset % NrGlobalRoots = r
    /\ \A w \in Works :
          wkey[w] # NoKey => wkey[w].offset % NrGlobalRoots = wroot[w]

\* C11 witness: a worker of a root other than root 0 truncates the inode of an
\* item of its root while root 0 holds an item of its own.
C11_Witness ==
    \E w \in Works :
        /\ wpc[w] = "gc_trunc" /\ wroot[w] # 0
        /\ wkey[w] \in items[wroot[w]]
        /\ items[0] # {}

\* C12: add_gc_item returns -ENOMEM without joining when the path allocation
\* fails, returns the join's error when the join fails, and returns -EEXIST
\* when the key is already in the root; in each case the items are unchanged.
\* A key enters a root only in the insert step of an add_gc_item that then
\* returns 0.
C12_AddFailsCleanly ==
    [][/\ (apc = "idle" /\ apc' = "idle" /\ avars' # avars) =>
              (aret' = "ENOMEM" /\ ~atrans'.open /\ items' = items)
       /\ (apc = "add_join" /\ apc' = "idle") =>
              (aret' \notin {"OK", "undef"} /\ ~atrans'.open /\ items' = items)
       /\ (apc = "add_insert" /\ apc' # "add_insert") =>
              IF akey \in items[akey.offset % NrGlobalRoots]
              THEN aret' = "EEXIST" /\ items' = items /\ idata' = idata
              ELSE /\ aret' = "OK"
                   /\ items' = [items EXCEPT ![akey.offset % NrGlobalRoots] =
                                    @ \cup {akey}]
       /\ (apc = "add_end" /\ apc' = "idle") =>
              (aret' = aret /\ items' = items)
       /\ \A r \in Roots : \A k \in Keys :
              (k \notin items[r] /\ k \in items'[r]) =>
                  (apc = "add_insert" /\ akey = k /\ aret' = "OK")]_vars

\* C12 witness: add_gc_item has found its key already present, for an inode
\* a worker has truncated but whose item is not yet deleted.
C12_Witness ==
    /\ apc = "add_end" /\ aret = "EEXIST"
    /\ akey \in items[inode_gc_root(akey)]
    /\ ~idata[akey]

\* C13: a call of btrfs_queue_gc_work made while EXTENT_TREE_V2 is missing or
\* the filesystem is closing returns at once: the caller never enters the
\* loop, so it sets no running bit and queues no work, and the items stay as
\* they are. Without EXTENT_TREE_V2 no bit is ever set and no work item ever
\* exists.
C13_QueueNoop ==
    /\ [][\A d \in Dispatchers :
             (dpc[d] = "idle" /\ (~incompat \/ closing)) =>
                 (dpc'[d] = "idle" /\ di'[d] = di[d])]_vars
    /\ [](~incompat =>
             /\ \A r \in Roots : ~flag[r]
             /\ \A w \in Works : wpc[w] = "free"
             /\ \A d \in Dispatchers : dpc[d] = "idle")

\* C13 witness: the filesystem is closing with items left in a root, every
\* dispatcher is at its entry, no bit is set and no work item exists.
C13_Witness ==
    /\ closing /\ incompat
    /\ \E r \in Roots : items[r] # {}
    /\ \A d \in Dispatchers : dpc[d] = "idle"
    /\ \A r \in Roots : ~flag[r]
    /\ \A w \in Works : wpc[w] = "free"

\* Worker positions inside gc_inode and delete_gc_item.
ItemPcs == {"gc_join", "gc_trunc", "gc_end", "del_join", "del_search", "del_end"}

\* C14: a worker starts on an item (gc_inode, then delete_gc_item) only from
\* a loop check that saw the filesystem closing and a first item in its root;
\* a loop check that sees the filesystem not closing leads straight to the
\* teardown; inode data is truncated and keys are deleted only while the
\* filesystem is closing.
C14_ProcessOnlyWhenClosing ==
    [][/\ \A w \in Works :
             /\ (wpc'[w] \in ItemPcs /\ wpc[w] \notin ItemPcs) =>
                    (wpc[w] = "loop" /\ closing /\ items[wroot[w]] # {})
             /\ (wpc[w] = "loop" /\ wpc'[w] = "loop" /\ wret'[w] # wret[w]) =>
                    (closing /\ items[wroot[w]] # {})
             /\ (wpc[w] = "loop" /\ wpc'[w] # "loop" /\ ~closing) =>
                    (wpc'[w] = "out" /\ items' = items /\ idata' = idata)
       /\ (\E k \in Keys : idata[k] /\ ~idata'[k]) => closing
       /\ (\E r \in Roots : items[r] \ items'[r] # {}) => closing]_vars

\* C14 witness: a worker has left its loop for the teardown, having processed
\* nothing, while the filesystem is not closing and its root holds an item
\* whose inode data is still there.
C14_Witness ==
    \E w \in Works :
        /\ wpc[w] = "out" /\ wret[w] = "undef" /\ ~closing
        /\ \E k \in items[wroot[w]] : idata[k]

\* C15: when the kmalloc of the work item for root i fails (the dispatcher
\* leaves its kmalloc position and no work item appears), the running bit of
\* root i is clear afterwards, no work item was queued, and the dispatcher is
\* at the test_and_set_bit of root i + 1, or has returned when i was the last
\* index; from the test_and_set_bit of a root the dispatcher goes to that
\* root's kmalloc or on to the next index.
C15_KmallocFailContinues ==
    [][\A d \in Dispatchers :
          /\ (dpc[d] = "kmalloc" /\ dpc'[d] # "kmalloc" /\ wpc' = wpc) =>
                /\ ~flag'[di[d]]
                /\ wroot' = wroot
                /\ IF di[d] + 1 < NrGlobalRoots
                   THEN dpc'[d] = "tas" /\ di'[d] = di[d] + 1
                   ELSE dpc'[d] = "idle"
          /\ (dpc[d] = "tas" /\ <<dpc'[d], di'[d]>> # <<dpc[d], di[d]>>) =>
                \/ dpc'[d] = "kmalloc" /\ di'[d] = di[d]
                \/ dpc'[d] = "tas" /\ di'[d] = di[d] + 1
                \/ dpc'[d] = "idle" /\ di[d] + 1 = NrGlobalRoots]_vars

\* C15 witness: a dispatcher has set the bit of root 0 and is at its kmalloc
\* while every work descriptor is in use, so the allocation fails.
C15_Witness ==
    \E d \in Dispatchers :
        dpc[d] = "kmalloc" /\ di[d] = 0 /\ flag[0] /\ FreeWork = {}

\* C16: when gc_inode goes from the loop check straight to the deletion (the
\* subvolume lookup returned -ENOENT), it has returned 0 for the first item
\* of the root without joining a transaction and without truncating, and
\* delete_gc_item is called for that item; when gc_inode returns to the loop
\* check with an error, nothing was truncated or deleted; delete_gc_item is
\* never entered with a non-zero ret.
C16_LookupOutcome ==
    [][\A w \in Works :
          /\ (wpc[w] = "loop" /\ wpc'[w] = "del_join") =>
                /\ wret'[w] = "OK"
                /\ wkey'[w] = btrfs_first_item(wroot[w])
                /\ wtrans'[w] = wtrans[w]
                /\ items' = items /\ idata' = idata
          /\ (wpc[w] # "del_join" /\ wpc'[w] = "del_join") => wret'[w] = "OK"
          /\ (wpc[w] = "loop" /\ wpc'[w] = "loop" /\ wret'[w] # wret[w]) =>
                /\ wret'[w] \notin {"OK", "undef"}
                /\ wkey'[w] = NoKey
                /\ items' = items /\ idata' = idata]_vars

\* C16 witness: delete_gc_item searches for the item of an inode whose data
\* was never truncated, which happens only after the -ENOENT return.
C16_Witness ==
    \E w \in Works :
        /\ wpc[w] = "del_search" /\ wret[w] = "OK"
        /\ wkey[w] \in items[wroot[w]]
        /\ idata[wkey[w]]

\* C17: a worker that leaves its start without entering the loop (its path
\* or reservation allocation failed) is at the teardown, having read no key,
\* called nothing that returns ret, joined no transaction and changed no item
\* or inode data; the teardown changes no item either and clears the running
\* bit of the worker's root before the descriptor is freed.
C17_AllocFailAborts ==
    [][\A w \in Works :
          /\ (wpc[w] = "queued" /\ wpc'[w] \notin {"queued", "loop"}) =>
                /\ wpc'[w] = "out"
                /\ wkey'[w] = NoKey /\ wret'[w] = "undef"
                /\ ~wtrans'[w].open
                /\ items' = items /\ idata' = idata
                /\ flag' = flag
          /\ (wpc[w] = "out" /\ wpc'[w] # "out") =>
                /\ wpc'[w] = "kfree"
                /\ ~flag'[wroot[w]]
                /\ items' = items /\ idata' = idata
          /\ (wpc[w] = "kfree" /\ wpc'[w] # "kfree") =>
                /\ wpc'[w] = "free"
                /\ items' = items /\ idata' = idata /\ flag' = flag]_vars

\* C17 witness: a worker is at the teardown with ret never assigned and no
\* key read, while the filesystem is closing and the worker's root holds an
\* item whose inode data is still there and whose bit is still set.
C17_Witness ==
    \E w \in Works :
        /\ wpc[w] = "out" /\ wret[w] = "undef" /\ wkey[w] = NoKey
        /\ closing /\ flag[wroot[w]]
        /\ \E k \in items[wroot[w]] : idata[k]

\* C18 (as stated): a worker that meets an item of another type than
\* GC_INODE_ITEM abandons that item only: every queued worker eventually
\* reaches the end of its teardown (its kfree).
C18_ForeignItemLocal ==
    \A w \in Works : (wpc[w] = "queued") ~> (wpc[w] = "kfree")

\* C19 (as stated): a transaction joined by add_gc_item, gc_inode or
\* delete_gc_item is ended before the function returns: no handle is open
\* once the adder is back at its caller or the worker is back at its loop
\* check or in its teardown.
C19_JoinedIsEnded ==
    /\ apc = "idle" => ~atrans.open
    /\ \A w \in Works :
          wpc[w] \in {"loop", "out", "kfree", "free"} => ~wtrans[w].open

\* C20: a root's running bit is set only while a work item of that root is
\* queued or running ahead of its clear_bit, or a dispatcher is between its
\* test_and_set_bit on that root and the enqueue or clear_bit that follows;
\* hence when every dispatcher has returned and no work item exists, every
\* bit is clear.
C20_FlagHasOwner ==
    /\ \A r \in Roots : flag[r] => (HoldersOf(r) # {} \/ SettersOf(r) # {})
    /\ ((\A d \in Dispatchers : dpc[d] = "idle") /\
        (\A w \in Works : wpc[w] = "free")) => \A r \in Roots : ~flag[r]

\* C20 witness: the bit of a root is held by a dispatcher at its kmalloc
\* while the previous work item of that root, its bit cleared, is at kfree.
C20_Witness ==
    \E r \in Roots :
        /\ flag[r] /\ SettersOf(r) # {} /\ HoldersOf(r) = {}
        /\ \E w \in Works : wpc[w] = "kfree" /\ wroot[w] = r

====
